---- MODULE Spec2Model ----
(***************************************************************************)
(* Model of crates/llama_cpp/src/session/params.rs: the PoolingType        *)
(* adapter, SessionParams::default() and the conversion of SessionParams   *)
(* into llama_context_params.                                              *)
(*                                                                         *)
(* Integers of the program are 32 bits wide; the model keeps the wrapping  *)
(* arithmetic of the casts but scales the word to Width bits.  f32 values  *)
(* are only ever copied, so they are modelled by integer tokens standing   *)
(* for bit patterns.                                                       *)
(***************************************************************************)
EXTENDS Integers, FiniteSets, Sequences

\* ---------------------------------------------------------------- bounds
Width == 6          \* bits of the scaled machine word (32 in the program)
MaxCores == 2       \* largest host physical-core count explored
MaxProfile == 1     \* native default blocks explored, besides the pooling and dtype codes
MaxThold == 1       \* defrag thresholds written by the caller: 0 .. MaxThold

\* ------------------------------------------------------- integer widths
U32Mod == 2 ^ Width
I32Min == -(2 ^ (Width - 1))
I32Max == 2 ^ (Width - 1) - 1
U32 == 0 .. (U32Mod - 1)
I32 == I32Min .. I32Max

\* `x as u32`: keep the low bits
AsU32(x) == x % U32Mod

\* `x as i32`: the same bits read as two's complement
AsI32(x) == IF AsU32(x) > I32Max THEN AsU32(x) - U32Mod ELSE AsU32(x)

\* ------------------------------------------------- the pooling adapter
llama_pooling_type_LLAMA_POOLING_TYPE_UNSPECIFIED == -1
llama_pooling_type_LLAMA_POOLING_TYPE_NONE == 0
llama_pooling_type_LLAMA_POOLING_TYPE_MEAN == 1
llama_pooling_type_LLAMA_POOLING_TYPE_CLS == 2

\* llama_pooling_type is a plain C int: every i32 is a value of the type
llama_pooling_type == I32

DefinedCodes ==
    { llama_pooling_type_LLAMA_POOLING_TYPE_UNSPECIFIED,
      llama_pooling_type_LLAMA_POOLING_TYPE_NONE,
      llama_pooling_type_LLAMA_POOLING_TYPE_MEAN,
      llama_pooling_type_LLAMA_POOLING_TYPE_CLS }

PoolingType == {"Unspecified", "None", "Mean", "Cls"}

\* the outcome of unimplemented!(): a panic, no value is returned
Unimplemented == "panic: not implemented"

\* a plausible slip: Mean and Cls swapped in one direction
to_native_swapped(value) ==
    CASE value = "Unspecified" -> llama_pooling_type_LLAMA_POOLING_TYPE_UNSPECIFIED
      [] value = "None" -> llama_pooling_type_LLAMA_POOLING_TYPE_NONE
      [] value = "Mean" -> llama_pooling_type_LLAMA_POOLING_TYPE_CLS
      [] value = "Cls" -> llama_pooling_type_LLAMA_POOLING_TYPE_MEAN

\* impl From<PoolingType> for llama_pooling_type
to_native(value) ==
    CASE value = "Unspecified" -> llama_pooling_type_LLAMA_POOLING_TYPE_UNSPECIFIED
      [] value = "None" -> llama_pooling_type_LLAMA_POOLING_TYPE_NONE
      [] value = "Mean" -> llama_pooling_type_LLAMA_POOLING_TYPE_MEAN
      [] value = "Cls" -> llama_pooling_type_LLAMA_POOLING_TYPE_CLS

\* a plausible slip: the fallback arm returns a default variant
from_native_defaulting(value) ==
    CASE value = llama_pooling_type_LLAMA_POOLING_TYPE_UNSPECIFIED -> "Unspecified"
      [] value = llama_pooling_type_LLAMA_POOLING_TYPE_NONE -> "None"
      [] value = llama_pooling_type_LLAMA_POOLING_TYPE_MEAN -> "Mean"
      [] value = llama_pooling_type_LLAMA_POOLING_TYPE_CLS -> "Cls"
      [] OTHER -> "Unspecified"

\* a plausible slip: the Cls arm is missing and falls into the fallback
from_native_no_cls(value) ==
    CASE value = llama_pooling_type_LLAMA_POOLING_TYPE_UNSPECIFIED -> "Unspecified"
      [] value = llama_pooling_type_LLAMA_POOLING_TYPE_NONE -> "None"
      [] value = llama_pooling_type_LLAMA_POOLING_TYPE_MEAN -> "Mean"
      [] OTHER -> Unimplemented

\* impl From<llama_pooling_type> for PoolingType
from_native(value) ==
    CASE value = llama_pooling_type_LLAMA_POOLING_TYPE_UNSPECIFIED -> "Unspecified"
      [] value = llama_pooling_type_LLAMA_POOLING_TYPE_NONE -> "None"
      [] value = llama_pooling_type_LLAMA_POOLING_TYPE_MEAN -> "Mean"
      [] value = llama_pooling_type_LLAMA_POOLING_TYPE_CLS -> "Cls"
      [] OTHER -> Unimplemented

\* ------------------------------------------------------------- the state
VARIABLES
    c_defaults,    \* the block llama_context_default_params() returns
    cores,         \* what num_cpus::get_physical() returns on this host
    ggml_signed,   \* the build's ggml_type: c_int (TRUE) or c_uint (FALSE)
    first,         \* the value of the first SessionParams::default() call
    second,        \* the value of the second SessionParams::default() call
    params,        \* the caller's mutable SessionParams, cloned from first
    preset,        \* a SessionParams written as a struct literal
    native,        \* per slot: the converted value and the resulting block
    adapter,       \* the values passed through the pooling adapter
    outcome        \* "running", or "panic" once a call has panicked

vars == <<c_defaults, cores, ggml_signed, first, second, params, preset,
          native, adapter, outcome>>

\* Option::None for the record-valued variables
NoValue == [none |-> TRUE]

\* a panic unwinding out of SessionParams::default()
Panicked == [panic |-> Unimplemented]

\* ------------------------------------------------------ the ggml_type casts
\* ggml_type is the C enum's integer type: c_uint, or c_int where the
\* compiler makes enums signed
ggml_type == IF ggml_signed THEN I32 ELSE U32

\* a plausible slip: a saturating conversion instead of a reinterpreting one
AsGgmlTypeSaturating(v) ==
    IF ggml_signed THEN (IF AsU32(v) > I32Max THEN I32Max ELSE AsU32(v)) ELSE AsU32(v)

\* `value.type_k as ggml_type`
AsGgmlType(v) == IF ggml_signed THEN AsI32(v) ELSE AsU32(v)

\* ------------------------------------------------------- the two records
SessionParamsFields ==
    { "seed", "n_ctx", "n_batch", "n_threads", "n_threads_batch",
      "rope_scaling_type", "rope_freq_base", "rope_freq_scale",
      "yarn_ext_factor", "yarn_attn_factor", "yarn_beta_fast", "yarn_beta_slow",
      "yarn_orig_ctx", "type_k", "type_v", "embedding", "offload_kqv",
      "pooling", "defrag_threshold" }

\* `num_cpus::get_physical() as u32 - 1`; get_physical() is at least 1, so
\* the subtraction does not overflow
HostThreads(n) == AsU32(n) - 1

\* a plausible slip: a field of the native default wired to the thread count
DefaultCrossWired(c, n) ==
    IF from_native(c.pooling_type) = Unimplemented
    THEN Panicked
    ELSE [ seed |-> c.seed,
           n_ctx |-> c.n_ctx,
           n_batch |-> HostThreads(n),
           n_threads |-> HostThreads(n),
           n_threads_batch |-> HostThreads(n),
           rope_scaling_type |-> c.rope_scaling_type,
           rope_freq_base |-> c.rope_freq_base,
           rope_freq_scale |-> c.rope_freq_scale,
           yarn_ext_factor |-> c.yarn_ext_factor,
           yarn_attn_factor |-> c.yarn_attn_factor,
           yarn_beta_fast |-> c.yarn_beta_fast,
           yarn_beta_slow |-> c.yarn_beta_slow,
           yarn_orig_ctx |-> c.yarn_orig_ctx,
           type_k |-> AsU32(c.type_k),
           type_v |-> AsU32(c.type_v),
           embedding |-> c.embedding,
           offload_kqv |-> c.offload_kqv,
           pooling |-> from_native(c.pooling_type),
           defrag_threshold |-> c.defrag_thold ]

\* a plausible slip: the seed drawn afresh on every call after the first
DefaultReseeding(c, n) ==
    IF from_native(c.pooling_type) = Unimplemented
    THEN Panicked
    ELSE [ seed |-> IF first = NoValue THEN c.seed ELSE AsU32(c.seed + 1),
           n_ctx |-> c.n_ctx,
           n_batch |-> c.n_batch,
           n_threads |-> HostThreads(n),
           n_threads_batch |-> HostThreads(n),
           rope_scaling_type |-> c.rope_scaling_type,
           rope_freq_base |-> c.rope_freq_base,
           rope_freq_scale |-> c.rope_freq_scale,
           yarn_ext_factor |-> c.yarn_ext_factor,
           yarn_attn_factor |-> c.yarn_attn_factor,
           yarn_beta_fast |-> c.yarn_beta_fast,
           yarn_beta_slow |-> c.yarn_beta_slow,
           yarn_orig_ctx |-> c.yarn_orig_ctx,
           type_k |-> AsU32(c.type_k),
           type_v |-> AsU32(c.type_v),
           embedding |-> c.embedding,
           offload_kqv |-> c.offload_kqv,
           pooling |-> from_native(c.pooling_type),
           defrag_threshold |-> c.defrag_thold ]

\* impl Default for SessionParams, given the native default block c and the
\* host's physical-core count n; the pooling conversion may panic
Default(c, n) ==
    IF from_native(c.pooling_type) = Unimplemented
    THEN Panicked
    ELSE [ seed |-> c.seed,
           n_ctx |-> c.n_ctx,
           n_batch |-> c.n_batch,
           n_threads |-> HostThreads(n),
           n_threads_batch |-> HostThreads(n),
           rope_scaling_type |-> c.rope_scaling_type,
           rope_freq_base |-> c.rope_freq_base,
           rope_freq_scale |-> c.rope_freq_scale,
           yarn_ext_factor |-> c.yarn_ext_factor,
           yarn_attn_factor |-> c.yarn_attn_factor,
           yarn_beta_fast |-> c.yarn_beta_fast,
           yarn_beta_slow |-> c.yarn_beta_slow,
           yarn_orig_ctx |-> c.yarn_orig_ctx,
           type_k |-> AsU32(c.type_k),
           type_v |-> AsU32(c.type_v),
           embedding |-> c.embedding,
           offload_kqv |-> c.offload_kqv,
           pooling |-> from_native(c.pooling_type),
           defrag_threshold |-> c.defrag_thold ]

\* a plausible slip: the deprecated flag follows the embedding field
ToNativeLogitsFollowEmbedding(value) ==
    [ seed |-> value.seed,
      n_ctx |-> value.n_ctx,
      n_batch |-> value.n_batch,
      n_threads |-> value.n_threads,
      n_threads_batch |-> value.n_threads_batch,
      rope_scaling_type |-> value.rope_scaling_type,
      rope_freq_base |-> value.rope_freq_base,
      rope_freq_scale |-> value.rope_freq_scale,
      yarn_ext_factor |-> value.yarn_ext_factor,
      yarn_attn_factor |-> value.yarn_attn_factor,
      yarn_beta_fast |-> value.yarn_beta_fast,
      yarn_beta_slow |-> value.yarn_beta_slow,
      yarn_orig_ctx |-> value.yarn_orig_ctx,
      defrag_thold |-> value.defrag_threshold,
      cb_eval |-> "None",
      cb_eval_user_data |-> "null",
      type_k |-> AsGgmlType(value.type_k),
      type_v |-> AsGgmlType(value.type_v),
      logits_all |-> value.embedding,
      embedding |-> value.embedding,
      offload_kqv |-> value.offload_kqv,
      pooling_type |-> to_native(value.pooling),
      abort_callback |-> "None",
      abort_callback_data |-> "null" ]

\* a plausible slip: the K and V cache types and the two thread counts crossed
ToNativeCrossWired(value) ==
    [ seed |-> value.seed,
      n_ctx |-> value.n_ctx,
      n_batch |-> value.n_batch,
      n_threads |-> value.n_threads_batch,
      n_threads_batch |-> value.n_threads,
      rope_scaling_type |-> value.rope_scaling_type,
      rope_freq_base |-> value.rope_freq_base,
      rope_freq_scale |-> value.rope_freq_scale,
      yarn_ext_factor |-> value.yarn_ext_factor,
      yarn_attn_factor |-> value.yarn_attn_factor,
      yarn_beta_fast |-> value.yarn_beta_fast,
      yarn_beta_slow |-> value.yarn_beta_slow,
      yarn_orig_ctx |-> value.yarn_orig_ctx,
      defrag_thold |-> value.defrag_threshold,
      cb_eval |-> "None",
      cb_eval_user_data |-> "null",
      type_k |-> AsGgmlType(value.type_v),
      type_v |-> AsGgmlType(value.type_k),
      logits_all |-> FALSE,
      embedding |-> value.embedding,
      offload_kqv |-> value.offload_kqv,
      pooling_type |-> to_native(value.pooling),
      abort_callback |-> "None",
      abort_callback_data |-> "null" ]

\* impl From<SessionParams> for llama_context_params
ToNative(value) ==
    [ seed |-> value.seed,
      n_ctx |-> value.n_ctx,
      n_batch |-> value.n_batch,
      n_threads |-> value.n_threads,
      n_threads_batch |-> value.n_threads_batch,
      rope_scaling_type |-> value.rope_scaling_type,
      rope_freq_base |-> value.rope_freq_base,
      rope_freq_scale |-> value.rope_freq_scale,
      yarn_ext_factor |-> value.yarn_ext_factor,
      yarn_attn_factor |-> value.yarn_attn_factor,
      yarn_beta_fast |-> value.yarn_beta_fast,
      yarn_beta_slow |-> value.yarn_beta_slow,
      yarn_orig_ctx |-> value.yarn_orig_ctx,
      defrag_thold |-> value.defrag_threshold,
      cb_eval |-> "None",
      cb_eval_user_data |-> "null",
      type_k |-> AsGgmlType(value.type_k),
      type_v |-> AsGgmlType(value.type_v),
      logits_all |-> FALSE,
      embedding |-> value.embedding,
      offload_kqv |-> value.offload_kqv,
      pooling_type |-> to_native(value.pooling),
      abort_callback |-> "None",
      abort_callback_data |-> "null" ]

\* ------------------------------------------------------ the environment
\* bit patterns with the top bit clear and set, where the casts differ
BitSamples == {1, U32Mod - 1}

\* pooling codes a native default block may carry: the four codes of the
\* bindings, and codes of a native library the bindings do not know
PoolingCodeSamples ==
    DefinedCodes \cup {llama_pooling_type_LLAMA_POOLING_TYPE_CLS + 1}

\* the f32 values the caller writes into defrag_threshold
TholdSamples == 0 .. MaxThold

\* a block llama_context_default_params() may return: profile k gives every
\* field a value no other field of its type has
NativeBlock(k, pt, tk, tv) ==
    [ seed |-> AsU32(-1 - k),
      n_ctx |-> 10 + k,
      n_batch |-> 20 + k,
      n_threads |-> 30 + k,
      n_threads_batch |-> 40 + k,
      rope_scaling_type |-> -1 + k,
      rope_freq_base |-> 100 + k,
      rope_freq_scale |-> 110 + k,
      yarn_ext_factor |-> 120 + k,
      yarn_attn_factor |-> 130 + k,
      yarn_beta_fast |-> 140 + k,
      yarn_beta_slow |-> 150 + k,
      yarn_orig_ctx |-> 50 + k,
      defrag_thold |-> -1 - k,
      cb_eval |-> "None",
      cb_eval_user_data |-> "null",
      type_k |-> tk,
      type_v |-> tv,
      logits_all |-> FALSE,
      embedding |-> (k % 2 = 1),
      offload_kqv |-> (k % 2 = 0),
      pooling_type |-> pt,
      abort_callback |-> "None",
      abort_callback_data |-> "null" ]

\* a SessionParams written out field by field by the caller
ParamsLiteral(k, p, tk, tv, n, m, e, o, x) ==
    [ seed |-> AsU32(-1 - k),
      n_ctx |-> 10 + k,
      n_batch |-> 20 + k,
      n_threads |-> n,
      n_threads_batch |-> m,
      rope_scaling_type |-> -1 + k,
      rope_freq_base |-> 100 + k,
      rope_freq_scale |-> 110 + k,
      yarn_ext_factor |-> 120 + k,
      yarn_attn_factor |-> 130 + k,
      yarn_beta_fast |-> 140 + k,
      yarn_beta_slow |-> 150 + k,
      yarn_orig_ctx |-> 50 + k,
      type_k |-> tk,
      type_v |-> tv,
      embedding |-> e,
      offload_kqv |-> o,
      pooling |-> p,
      defrag_threshold |-> x ]

\* nothing has been converted yet
NoConversion == [arg |-> NoValue, block |-> NoValue]

Slots == {"default", "mutated", "preset"}

\* nothing has been passed through the adapter yet
IdleAdapter ==
    [ code |-> <<>>, variant_of_code |-> <<>>, code_back |-> <<>>,
      variant |-> <<>>, code_of_variant |-> <<>>, variant_back |-> <<>> ]

\* ------------------------------------------- default, mutate, convert
Init ==
    /\ \E k \in 0 .. MaxProfile, pt \in PoolingCodeSamples, b \in BOOLEAN :
         /\ ggml_signed = b
         /\ \E tk \in BitSamples, tv \in BitSamples :
              c_defaults = NativeBlock(k, pt, IF b THEN AsI32(tk) ELSE tk,
                                              IF b THEN AsI32(tv) ELSE tv)
    /\ cores \in 1 .. MaxCores
    /\ first = NoValue
    /\ second = NoValue
    /\ params = NoValue
    /\ preset = NoValue
    /\ native = [s \in Slots |-> NoConversion]
    /\ adapter = IdleAdapter
    /\ outcome = "running"

\* let mut params = SessionParams::default(); and a second call after it
DefaultCall ==
    /\ outcome = "running"
    /\ second = NoValue
    /\ LET r == Default(c_defaults, cores) IN
         IF r = Panicked
         THEN /\ outcome' = "panic"
              /\ UNCHANGED <<first, second, params>>
         ELSE IF first = NoValue
              THEN /\ first' = r
                   /\ params' = r
                   /\ UNCHANGED <<second, outcome>>
              ELSE /\ second' = r
                   /\ UNCHANGED <<first, params, outcome>>
    /\ UNCHANGED <<c_defaults, cores, ggml_signed, preset, native, adapter>>

\* a plausible slip: the write reaches a neighbouring f32 field as well
SetDefragThresholdClobbering(x) ==
    /\ outcome = "running"
    /\ params # NoValue
    /\ params' = [params EXCEPT !.defrag_threshold = x, !.rope_freq_scale = x]
    /\ UNCHANGED <<c_defaults, cores, ggml_signed, first, second, preset,
                   native, adapter, outcome>>

\* params.defrag_threshold = x;
SetDefragThreshold(x) ==
    /\ outcome = "running"
    /\ params # NoValue
    /\ params' = [params EXCEPT !.defrag_threshold = x]
    /\ UNCHANGED <<c_defaults, cores, ggml_signed, first, second, preset,
                   native, adapter, outcome>>

\* SessionParams { defrag_threshold: x, <every other field as the default has it> }
ConstructPreset(x) ==
    /\ outcome = "running"
    /\ first # NoValue
    /\ preset' =
         [ seed |-> first.seed,
           n_ctx |-> first.n_ctx,
           n_batch |-> first.n_batch,
           n_threads |-> first.n_threads,
           n_threads_batch |-> first.n_threads_batch,
           rope_scaling_type |-> first.rope_scaling_type,
           rope_freq_base |-> first.rope_freq_base,
           rope_freq_scale |-> first.rope_freq_scale,
           yarn_ext_factor |-> first.yarn_ext_factor,
           yarn_attn_factor |-> first.yarn_attn_factor,
           yarn_beta_fast |-> first.yarn_beta_fast,
           yarn_beta_slow |-> first.yarn_beta_slow,
           yarn_orig_ctx |-> first.yarn_orig_ctx,
           type_k |-> first.type_k,
           type_v |-> first.type_v,
           embedding |-> first.embedding,
           offload_kqv |-> first.offload_kqv,
           pooling |-> first.pooling,
           defrag_threshold |-> x ]
    /\ UNCHANGED <<c_defaults, cores, ggml_signed, first, second, params,
                   native, adapter, outcome>>

\* the SessionParams a slot converts
SlotValue(s) ==
    CASE s = "default" -> first
      [] s = "mutated" -> params
      [] s = "preset" -> preset

\* llama_context_params::from(value.clone())
Convert(s) ==
    /\ outcome = "running"
    /\ SlotValue(s) # NoValue
    /\ native' = [native EXCEPT ![s] = [arg |-> SlotValue(s),
                                         block |-> ToNative(SlotValue(s))]]
    /\ UNCHANGED <<c_defaults, cores, ggml_signed, first, second, params,
                   preset, adapter, outcome>>

Next ==
    \/ DefaultCall
    \/ \E x \in TholdSamples : SetDefragThreshold(x)
    \/ \E x \in TholdSamples : ConstructPreset(x)
    \/ \E s \in Slots : Convert(s)

Spec == Init /\ [][Next]_vars

\* ------------------------------------------------ conversion of literals
\* the SessionParams values the caller writes as struct literals
ParamsSamples ==
    { ParamsLiteral(k, p, tk, tv, n, m, e, o, x) :
        k \in 0 .. MaxProfile, p \in PoolingType, tk \in BitSamples,
        tv \in BitSamples, n \in 0 .. MaxCores, m \in 0 .. MaxCores,
        e \in BOOLEAN, o \in BOOLEAN, x \in TholdSamples }

InitConvert ==
    /\ ggml_signed \in BOOLEAN
    /\ c_defaults = NativeBlock(0, llama_pooling_type_LLAMA_POOLING_TYPE_UNSPECIFIED, 1, 1)
    /\ cores = 1
    /\ first = NoValue
    /\ second = NoValue
    /\ params = NoValue
    /\ preset \in ParamsSamples
    /\ native = [s \in Slots |-> NoConversion]
    /\ adapter = IdleAdapter
    /\ outcome = "running"

NextConvert == \E s \in Slots : Convert(s)

SpecConvert == InitConvert /\ [][NextConvert]_vars

\* ------------------------------------------------ the adapter on its own
InitAdapter ==
    /\ ggml_signed = FALSE
    /\ c_defaults = NativeBlock(0, llama_pooling_type_LLAMA_POOLING_TYPE_UNSPECIFIED, 1, 1)
    /\ cores = 1
    /\ first = NoValue
    /\ second = NoValue
    /\ params = NoValue
    /\ preset = NoValue
    /\ native = [s \in Slots |-> NoConversion]
    /\ \E c \in llama_pooling_type, v \in PoolingType :
         adapter = [IdleAdapter EXCEPT !.code = <<c>>, !.variant = <<v>>]
    /\ outcome = "running"

\* PoolingType::from(code)
FromNativeOfCode ==
    /\ outcome = "running"
    /\ adapter.variant_of_code = <<>>
    /\ LET r == from_native(adapter.code[1]) IN
         IF r = Unimplemented
         THEN outcome' = "panic" /\ UNCHANGED adapter
         ELSE adapter' = [adapter EXCEPT !.variant_of_code = <<r>>] /\ UNCHANGED outcome
    /\ UNCHANGED <<c_defaults, cores, ggml_signed, first, second, params, preset, native>>

\* llama_pooling_type::from(PoolingType::from(code))
ToNativeBack ==
    /\ outcome = "running"
    /\ adapter.variant_of_code # <<>>
    /\ adapter.code_back = <<>>
    /\ adapter' = [adapter EXCEPT !.code_back = <<to_native(adapter.variant_of_code[1])>>]
    /\ UNCHANGED <<c_defaults, cores, ggml_signed, first, second, params, preset,
                   native, outcome>>

\* llama_pooling_type::from(variant)
ToNativeOfVariant ==
    /\ outcome = "running"
    /\ adapter.code_of_variant = <<>>
    /\ adapter' = [adapter EXCEPT !.code_of_variant = <<to_native(adapter.variant[1])>>]
    /\ UNCHANGED <<c_defaults, cores, ggml_signed, first, second, params, preset,
                   native, outcome>>

\* PoolingType::from(llama_pooling_type::from(variant))
FromNativeBack ==
    /\ outcome = "running"
    /\ adapter.code_of_variant # <<>>
    /\ adapter.variant_back = <<>>
    /\ LET r == from_native(adapter.code_of_variant[1]) IN
         IF r = Unimplemented
         THEN outcome' = "panic" /\ UNCHANGED adapter
         ELSE adapter' = [adapter EXCEPT !.variant_back = <<r>>] /\ UNCHANGED outcome
    /\ UNCHANGED <<c_defaults, cores, ggml_signed, first, second, params, preset, native>>

NextAdapter ==
    \/ FromNativeOfCode
    \/ ToNativeBack
    \/ ToNativeOfVariant
    \/ FromNativeBack

SpecAdapter == InitAdapter /\ [][NextAdapter]_vars

\* ================================================================ claims

\* C1: the pooling adapter round-trips in both directions: for each of the
\* four native codes to_native(from_native(code)) = code and the trip does
\* not panic, and for each of the four variants
\* from_native(to_native(variant)) = variant.
PoolingRoundTrip ==
    /\ adapter.code_back # <<>> => adapter.code_back = adapter.code
    /\ adapter.variant_back # <<>> => adapter.variant_back = adapter.variant
    /\ (adapter.code # <<>> /\ adapter.code[1] \in DefinedCodes) => outcome # "panic"

PoolingRoundTripWitness ==
    /\ adapter.code = <<llama_pooling_type_LLAMA_POOLING_TYPE_MEAN>>
    /\ adapter.code_back # <<>>
    /\ adapter.variant = <<"Cls">>
    /\ adapter.variant_back # <<>>

\* C2: from_native of a code that is not one of the four defined codes
\* returns no PoolingType value, in particular no default variant: the call
\* ends in a panic.
UnknownCodePanics ==
    [][ (FromNativeOfCode /\ adapter.code[1] \notin DefinedCodes)
          => (outcome' = "panic" /\ adapter'.variant_of_code = <<>>) ]_vars

UnknownCodePanicsWitness ==
    /\ adapter.code = <<llama_pooling_type_LLAMA_POOLING_TYPE_CLS + 1>>
    /\ adapter.variant_of_code = <<>>
    /\ outcome = "panic"

\* C3: default construction sets both thread fields to N - 1 on a host with
\* N >= 2 physical cores and to 1 (not 0) on a host with one core, so both
\* are at least 1.
ThreadCountDerivation ==
    first # NoValue =>
        /\ cores >= 2 => (first.n_threads = cores - 1 /\ first.n_threads_batch = cores - 1)
        /\ cores = 1 => (first.n_threads = 1 /\ first.n_threads_batch = 1)
        /\ first.n_threads >= 1
        /\ first.n_threads_batch >= 1

\* C4: whatever the fields of the SessionParams, the converted block has
\* both callbacks absent, both callback data pointers null and logits_all
\* false.
FixedNativeFields ==
    \A s \in Slots :
        native[s] # NoConversion =>
            /\ native[s].block.cb_eval = "None"
            /\ native[s].block.cb_eval_user_data = "null"
            /\ native[s].block.abort_callback = "None"
            /\ native[s].block.abort_callback_data = "null"
            /\ native[s].block.logits_all = FALSE

FixedNativeFieldsWitness ==
    /\ native["preset"] # NoConversion
    /\ native["preset"].arg.embedding = TRUE
    /\ native["preset"].arg.offload_kqv = TRUE
    /\ native["preset"].arg.pooling = "Cls"

\* C5: conversion copies every configurable field to the native field of the
\* same purpose, unchanged and without cross-wiring; type_k and type_v are
\* the source codes reinterpreted as ggml_type, pooling_type is
\* to_native(pooling); no value is clamped or rejected.
ConversionFidelity ==
    /\ outcome = "running"
    /\ \A s \in Slots :
        native[s] # NoConversion =>
            LET v == native[s].arg
                b == native[s].block
            IN  /\ b.seed = v.seed
                /\ b.n_ctx = v.n_ctx
                /\ b.n_batch = v.n_batch
                /\ b.n_threads = v.n_threads
                /\ b.n_threads_batch = v.n_threads_batch
                /\ b.rope_scaling_type = v.rope_scaling_type
                /\ b.rope_freq_base = v.rope_freq_base
                /\ b.rope_freq_scale = v.rope_freq_scale
                /\ b.yarn_ext_factor = v.yarn_ext_factor
                /\ b.yarn_attn_factor = v.yarn_attn_factor
                /\ b.yarn_beta_fast = v.yarn_beta_fast
                /\ b.yarn_beta_slow = v.yarn_beta_slow
                /\ b.yarn_orig_ctx = v.yarn_orig_ctx
                /\ b.embedding = v.embedding
                /\ b.offload_kqv = v.offload_kqv
                /\ b.defrag_thold = v.defrag_threshold
                /\ b.type_k \in ggml_type
                /\ b.type_v \in ggml_type
                /\ AsU32(b.type_k) = v.type_k
                /\ AsU32(b.type_v) = v.type_v
                /\ b.pooling_type = to_native(v.pooling)
                /\ b.pooling_type \in DefinedCodes
                /\ from_native(b.pooling_type) = v.pooling

ConversionFidelityWitness ==
    /\ native["preset"] # NoConversion
    /\ native["preset"].arg.embedding = TRUE
    /\ native["preset"].arg.offload_kqv = TRUE
    /\ native["preset"].arg.pooling = "Mean"
    /\ native["preset"].block.pooling_type = llama_pooling_type_LLAMA_POOLING_TYPE_MEAN
    /\ native["preset"].arg.type_k # native["preset"].arg.type_v
    /\ native["preset"].arg.n_threads # native["preset"].arg.n_threads_batch
    /\ native["preset"].arg.defrag_threshold = MaxThold

\* C6: default construction copies the native default block into every
\* SessionParams field except three: n_threads and n_threads_batch both get
\* the host-derived thread value, pooling gets from_native of the native
\* default pooling code; no other field depends on the core count and no
\* native default lands in a different field.
DefaultCopiesNativeDefaults ==
    first # NoValue =>
        /\ DOMAIN first = SessionParamsFields
        /\ first.seed = c_defaults.seed
        /\ first.n_ctx = c_defaults.n_ctx
        /\ first.n_batch = c_defaults.n_batch
        /\ first.n_threads = cores - 1
        /\ first.n_threads_batch = first.n_threads
        /\ first.rope_scaling_type = c_defaults.rope_scaling_type
        /\ first.rope_freq_base = c_defaults.rope_freq_base
        /\ first.rope_freq_scale = c_defaults.rope_freq_scale
        /\ first.yarn_ext_factor = c_defaults.yarn_ext_factor
        /\ first.yarn_attn_factor = c_defaults.yarn_attn_factor
        /\ first.yarn_beta_fast = c_defaults.yarn_beta_fast
        /\ first.yarn_beta_slow = c_defaults.yarn_beta_slow
        /\ first.yarn_orig_ctx = c_defaults.yarn_orig_ctx
        /\ first.type_k \in U32
        /\ first.type_v \in U32
        /\ AsGgmlType(first.type_k) = c_defaults.type_k
        /\ AsGgmlType(first.type_v) = c_defaults.type_v
        /\ first.embedding = c_defaults.embedding
        /\ first.offload_kqv = c_defaults.offload_kqv
        /\ first.pooling \in PoolingType
        /\ to_native(first.pooling) = c_defaults.pooling_type
        /\ first.defrag_threshold = c_defaults.defrag_thold

DefaultCopiesNativeDefaultsWitness ==
    /\ first # NoValue
    /\ cores = MaxCores
    /\ c_defaults.pooling_type = llama_pooling_type_LLAMA_POOLING_TYPE_NONE
    /\ c_defaults.type_k # c_defaults.type_v
    /\ c_defaults.n_batch # cores - 1

DefaultThenConvertReproducesNative ==
    (native["default"] # NoConversion) =>
        LET b == native["default"].block IN
            /\ DOMAIN b = DOMAIN c_defaults
            /\ \A f \in DOMAIN c_defaults \ {"n_threads", "n_threads_batch", "cb_eval",
                                              "cb_eval_user_data", "abort_callback",
                                              "abort_callback_data", "logits_all"} :
                 b[f] = c_defaults[f]

DefaultThenConvertReproducesNativeWitness ==
    /\ native["default"] # NoConversion
    /\ ggml_signed
    /\ c_defaults.type_k < 0
    /\ c_defaults.type_v > 0
    /\ c_defaults.pooling_type = llama_pooling_type_LLAMA_POOLING_TYPE_UNSPECIFIED

====
